---- MODULE Spec2Model ----
(***************************************************************************)
(* Model of the MCP bridge client manager (mcp_bridge.mcp_clients.         *)
(* McpClientManager), the configuration loader (mcp_bridge.config) and the *)
(* tool endpoints (mcp_bridge.mcpManagement.tools).                        *)
(*                                                                         *)
(* The program runs on one asyncio event loop: a coroutine runs atomically *)
(* from one await to the next, and other coroutines run while it awaits.   *)
(* Every action below is one such atomic stretch of one coroutine.         *)
(***************************************************************************)
EXTENDS Integers, Sequences, FiniteSets, TLC

VARIABLES proc, file, config, clients, inst, boot, rl, rt, nReloads

vars == <<proc, file, config, clients, inst, boot, rl, rt, nReloads>>

----------------------------------------------------------------------------
(* Bounds *)

\* number of /servers/update requests accepted in one behaviour
MaxReloadCalls == 2

----------------------------------------------------------------------------
(* Inputs *)

Names == {"a", "b", "c"}

\* the coroutines that may run update_mcp_servers at the same time
Reloaders == {"u1", "u2"}

\* descriptor shapes a server entry of the file can have: the three models
\* of Settings.mcp_servers, and a dict that matches none of them
KnownKinds == {"stdio", "sse", "docker"}

\* a descriptor shape the configuration accepts and construct_client has no
\* branch for
UnsupportedKinds == {"other"}

E(n, k) == [name |-> n, kind |-> k]

\* contents of mcp_config.json at start-up
InitialFiles == { <<E("a", "stdio"), E("b", "sse")>>,
                  <<E("b", "sse"), E("c", "docker")>> }

\* bodies of POST /tools/servers/update; an added id of kind "missing" has no
\* entry in serverConfigs
Requests == { [remove |-> {"a"}, add |-> <<E("c", "docker"), E("a", "missing")>>],
              [remove |-> {},    add |-> <<>>],
              [remove |-> {"b", "c"}, add |-> <<E("a", "stdio")>>],
              [remove |-> {},    add |-> <<E("b", "invalid")>>],
              [remove |-> {},    add |-> <<E("c", "other"), E("a", "stdio")>>] }

\* what each backend answers to list_tools / list_prompts
ToolCatalog == [n \in Names |->
                  CASE n = "a" -> {"x"}
                    [] n = "b" -> {"x", "y"}
                    [] OTHER   -> {"y"}]

PromptCatalog == [n \in Names |->
                  CASE n = "a" -> {}
                    [] n = "b" -> {"p"}
                    [] OTHER   -> {"p"}]

\* the names a request may ask for
Capabilities == [tool |-> {"x"}, prompt |-> {"p"}]

Catalog(via, n) == IF via = "tool" THEN ToolCatalog[n] ELSE PromptCatalog[n]

----------------------------------------------------------------------------
(* The clients dict: a Python dict keeps insertion order, so the registry  *)
(* is a sequence of (name, client) entries with unique names.              *)

Keys(d) == [i \in 1..Len(d) |-> d[i].name]

KeySet(d) == {d[i].name : i \in 1..Len(d)}

Has(d, n) == n \in KeySet(d)

\* d[n]
Lookup(d, n) == d[CHOOSE i \in 1..Len(d) : d[i].name = n].id

\* a pop that leaves the entry in the dict
PopKeepsEntry(d, n) == d

\* d.pop(n)
Pop(d, n) == SelectSeq(d, LAMBDA e : e.name # n)

\* d[n] = id : an existing key keeps its position, a new key goes last
SetItem(d, n, id) ==
    IF Has(d, n)
    THEN [i \in 1..Len(d) |-> IF d[i].name = n THEN [name |-> n, id |-> id] ELSE d[i]]
    ELSE Append(d, [name |-> n, id |-> id])

----------------------------------------------------------------------------
(* Backend clients (StdioClient, SseClient, DockerClient): name, session   *)
(* and the start/stop lifecycle.  by, starts and stops record who built    *)
(* the instance and how often start() and stop() were called on it.        *)

\* a dispatch that builds the stdio client for an SSE descriptor
ClientClassSseAsStdio(kind) ==
    CASE kind = "stdio"  -> "StdioClient"
      [] kind = "sse"    -> "StdioClient"
      [] kind = "docker" -> "DockerClient"
      [] OTHER           -> "NotImplementedError"

\* the isinstance dispatch of construct_client
ClientClass(kind) ==
    CASE kind = "stdio"  -> "StdioClient"
      [] kind = "sse"    -> "SseClient"
      [] kind = "docker" -> "DockerClient"
      [] OTHER           -> "NotImplementedError"

\* XClient(name, server_config) followed by the call of client.start()
construct_client(n, kind, by) ==
    [name |-> n, class |-> ClientClass(kind), state |-> "Starting",
     session |-> FALSE, starts |-> 1, stops |-> 0, by |-> by]

\* how an awaited start() ends: the session is established; or it is not and
\* the client is left Failed; or it is not and the failure is raised
StartOutcomes == {"connected", "failed", "raise"}

Started(c, out) ==
    [c EXCEPT !.state = IF out = "connected" THEN "Connected" ELSE "Failed",
              !.session = (out = "connected")]

\* the call of client.stop()
StopCalled(c) == [c EXCEPT !.stops = @ + 1]

\* how an awaited stop() ends: a no-op on a client that is neither Connected
\* nor Starting; otherwise the client is Stopped, also when the close raises
StopOutcomes(c) == IF c.state \in {"Connected", "Starting"} THEN {"ok", "raise"} ELSE {"ok"}

Stopped(c) ==
    IF c.state \in {"Connected", "Starting"}
    THEN [c EXCEPT !.state = "Stopped", !.session = FALSE]
    ELSE c

----------------------------------------------------------------------------
(* mcp_bridge.config *)

\* Settings(**result) accepts the merged configuration
Validates(f) == \A i \in 1..Len(f) : f[i].kind \in KnownKinds \cup UnsupportedKinds

----------------------------------------------------------------------------
(* update_mcp_servers: the rewrite of mcp_config.json *)

RemoveServers(f, ids) == SelectSeq(f, LAMBDA e : e.name \notin ids)

RECURSIVE AddServers(_, _)
AddServers(f, add) ==
    IF add = <<>> THEN f
    ELSE LET e == Head(add)
             g == IF e.kind = "missing" THEN f
                  ELSE IF \E i \in 1..Len(f) : f[i].name = e.name
                       THEN [i \in 1..Len(f) |-> IF f[i].name = e.name THEN e ELSE f[i]]
                       ELSE Append(f, e)
         IN  AddServers(g, Tail(add))

WriteConfig(f, req) == AddServers(RemoveServers(f, req.remove), req.add)

----------------------------------------------------------------------------
(* State *)

BootIdle == [pc |-> "start", idx |-> 1, cur |-> 0, failed |-> {}]

\* no response has been produced
NoAnswer == [http |-> 0, success |-> FALSE, reload_success |-> FALSE]

\* the response of update_mcp_servers once reload_config_and_clients has
\* returned res: reload_success starts False and takes the returned value
Answer(res) == [http |-> 200, success |-> TRUE, reload_success |-> (res = "True")]

ReloadIdle ==
    [pc |-> "idle", cfg |-> <<>>, removed |-> {}, keys |-> <<>>, idx |-> 1,
     cur |-> 0, result |-> "none", err |-> "none", pre |-> <<>>, base |-> 0,
     prevConfig |-> <<>>, overlapped |-> FALSE, failed |-> {},
     req |-> [remove |-> {}, add |-> <<>>], resp |-> NoAnswer]

RouteIdle ==
    [pc |-> "idle", via |-> "tool", cap |-> "x", snap |-> <<>>, idx |-> 1,
     seen |-> <<>>, result |-> 0, raised |-> "none", http |-> 0, called |-> 0,
     stable |-> TRUE]

\* a get_clients() that hands out the registry itself: the caller's list
\* follows the registry
SnapshotAliased(rec, cl) == cl

\* get_clients() returns list(self.clients.items()), a new list: what the
\* caller holds once the registry has become cl
SnapshotAfter(rec, cl) == rec.snap

\* a request in flight learns that the registry or a client changed under it
Disturbed(rec) ==
    IF rec.pc = "idle" THEN rec
    ELSE [rec EXCEPT !.stable = FALSE, !.snap = SnapshotAfter(rec, clients')]

Init ==
    /\ proc = "booting"
    /\ file \in InitialFiles
    /\ config = file
    /\ clients = <<>>
    /\ inst = <<>>
    /\ boot = BootIdle
    /\ rl = [r \in Reloaders |-> ReloadIdle]
    /\ rt = RouteIdle
    /\ nReloads = 0

Active(r) == rl[r].pc \notin {"idle", "done", "exit"}

\* No handler is in the stretch between its last await and its return: that
\* stretch runs without yielding to the event loop, so nothing else runs
\* until the handler has returned.
Yielded == rt.pc # "responded" /\ \A r \in DOMAIN rl : rl[r].pc # "done"

----------------------------------------------------------------------------
(* MCPClientManager.initialize, run once by the application start-up *)

\* the for loop of initialize from entry b.idx on, up to the next await
InitLoop(b, cl, ins) ==
    IF b.idx > Len(config)
    THEN /\ boot' = [b EXCEPT !.pc = "finished"]
         /\ proc' = "serving"
         /\ clients' = cl
         /\ inst' = ins
    ELSE LET e == config[b.idx] IN
         IF ClientClass(e.kind) = "NotImplementedError"
         THEN /\ boot' = [b EXCEPT !.pc = "raised"]
              /\ proc' = "crashed"
              /\ clients' = cl
              /\ inst' = ins
         ELSE /\ boot' = [b EXCEPT !.pc = "await_start", !.cur = Len(ins) + 1]
              /\ proc' = proc
              /\ clients' = cl
              /\ inst' = Append(ins, construct_client(e.name, e.kind, "boot"))

initialize ==
    /\ proc = "booting"
    /\ boot.pc = "start"
    /\ InitLoop(boot, clients, inst)
    /\ UNCHANGED <<file, config, rl, rt, nReloads>>

\* client.start() awaited by construct_client returns or raises
InitStartReturn ==
    /\ proc = "booting"
    /\ boot.pc = "await_start"
    /\ \E out \in StartOutcomes :
         LET ins == [inst EXCEPT ![boot.cur] = Started(@, out)]
             n   == inst[boot.cur].name
             b   == [boot EXCEPT !.failed = IF out = "connected" THEN @ ELSE @ \cup {n}]
         IN  IF out = "raise"
             THEN /\ boot' = [b EXCEPT !.pc = "raised"]
                  /\ proc' = "crashed"
                  /\ clients' = clients
                  /\ inst' = ins
             ELSE InitLoop([b EXCEPT !.idx = @ + 1], SetItem(clients, n, boot.cur), ins)
    /\ UNCHANGED <<file, config, rl, rt, nReloads>>

----------------------------------------------------------------------------
(* MCPClientManager.reload_config_and_clients, called by update_mcp_servers *)

\* return True, or the except clause: log and return False
ReloadEnd(rls, r, rec, cl, ins, res, err) ==
    /\ rl' = [rls EXCEPT ![r] = [rec EXCEPT !.pc = "done", !.result = res, !.err = err,
                                            !.resp = Answer(res)]]
    /\ clients' = cl
    /\ inst' = ins

\* "Initialize new clients based on updated config", from entry rec.idx on
BuildLoop(rls, r, rec, cl, ins) ==
    IF rec.idx > Len(rec.cfg)
    THEN ReloadEnd(rls, r, rec, cl, ins, "True", "none")
    ELSE LET e == rec.cfg[rec.idx] IN
         IF ClientClass(e.kind) = "NotImplementedError"
         THEN ReloadEnd(rls, r, rec, cl, ins, "False", "NotImplementedError")
         ELSE /\ rl' = [rls EXCEPT ![r] = [rec EXCEPT !.pc = "await_start", !.cur = Len(ins) + 1]]
              /\ clients' = cl
              /\ inst' = Append(ins, construct_client(e.name, e.kind, r))

\* a reload that stops the removed servers only and goes straight on to
\* building
StopLoopSkipped(rls, r, rec, cl, ins) ==
    BuildLoop(rls, r, [rec EXCEPT !.idx = 1, !.keys = <<>>], cl, ins)

\* "reinitialize all clients": the loop over list(self.clients.keys())
StopLoop(rls, r, rec, cl, ins) ==
    IF rec.keys = <<>>
    THEN BuildLoop(rls, r, [rec EXCEPT !.idx = 1], cl, ins)
    ELSE LET n == Head(rec.keys) IN
         IF ~Has(cl, n)
         THEN ReloadEnd(rls, r, rec, cl, ins, "False", "KeyError")
         ELSE /\ rl' = [rls EXCEPT ![r] = [rec EXCEPT !.pc = "await_stop_all", !.cur = Lookup(cl, n)]]
              /\ clients' = cl
              /\ inst' = [ins EXCEPT ![Lookup(cl, n)] = StopCalled(@)]

\* "Handle removed servers": the loop over old_server_names - new_server_names
RemoveLoop(rls, r, rec, cl, ins) ==
    IF rec.removed = {}
    THEN StopLoop(rls, r, [rec EXCEPT !.keys = Keys(cl)], cl, ins)
    ELSE \E n \in rec.removed :
         IF ~Has(cl, n)
         THEN ReloadEnd(rls, r, rec, cl, ins, "False", "KeyError")
         ELSE /\ rl' = [rls EXCEPT ![r] = [rec EXCEPT !.pc = "await_stop_removed",
                                                      !.removed = @ \ {n},
                                                      !.cur = Lookup(cl, n)]]
              /\ clients' = Pop(cl, n)
              /\ inst' = [ins EXCEPT ![Lookup(cl, n)] = StopCalled(@)]

\* the other reloads that are between their first and their last step
Overlapping(r) == {q \in Reloaders \ {r} : Active(q)}

\* POST /tools/servers/update: rewrite the file, then reload up to the first
\* await; load_configs leaves the process through exit(1) when the merged
\* configuration does not validate
update_mcp_servers(r, req) ==
    /\ proc = "serving"
    /\ Yielded
    /\ rl[r].pc = "idle"
    /\ r = "u1" \/ rl["u1"].pc # "idle"
    /\ nReloads < MaxReloadCalls
    /\ nReloads' = nReloads + 1
    /\ file' = WriteConfig(file, req)
    /\ LET rec == [ReloadIdle EXCEPT !.pre = clients, !.base = Len(inst),
                                     !.prevConfig = config, !.req = req,
                                     !.overlapped = (Overlapping(r) # {})]
           marked == [q \in Reloaders |->
                        IF q \in Overlapping(r) THEN [rl[q] EXCEPT !.overlapped = TRUE] ELSE rl[q]]
       IN  IF ~Validates(file')
           THEN /\ proc' = "exited"
                /\ config' = config
                /\ rl' = [marked EXCEPT ![r] = [rec EXCEPT !.pc = "exit", !.err = "ValidationError"]]
                /\ clients' = clients
                /\ inst' = inst
           ELSE /\ proc' = proc
                /\ config' = file'
                /\ RemoveLoop(marked, r,
                              [rec EXCEPT !.cfg = file',
                                          !.removed = KeySet(clients) \ KeySet(file')],
                              clients, inst)
    /\ rt' = Disturbed(rt)
    /\ UNCHANGED boot

\* client.stop() awaited in the loop over the removed servers returns or raises
StopRemovedReturn(r) ==
    /\ proc = "serving"
    /\ Yielded
    /\ rl[r].pc = "await_stop_removed"
    /\ \E out \in StopOutcomes(inst[rl[r].cur]) :
         LET ins == [inst EXCEPT ![rl[r].cur] = Stopped(@)] IN
         IF out = "raise"
         THEN ReloadEnd(rl, r, rl[r], clients, ins, "False", "stop")
         ELSE RemoveLoop(rl, r, rl[r], clients, ins)
    /\ rt' = Disturbed(rt)
    /\ UNCHANGED <<proc, file, config, boot, nReloads>>

\* client.stop() awaited in the loop over all clients returns or raises;
\* after a return the name is popped
StopAllReturn(r) ==
    /\ proc = "serving"
    /\ Yielded
    /\ rl[r].pc = "await_stop_all"
    /\ \E out \in StopOutcomes(inst[rl[r].cur]) :
         LET ins == [inst EXCEPT ![rl[r].cur] = Stopped(@)]
             n   == Head(rl[r].keys)
         IN  IF out = "raise"
             THEN ReloadEnd(rl, r, rl[r], clients, ins, "False", "stop")
             ELSE IF ~Has(clients, n)
                  THEN ReloadEnd(rl, r, rl[r], clients, ins, "False", "KeyError")
                  ELSE StopLoop(rl, r, [rl[r] EXCEPT !.keys = Tail(@)], Pop(clients, n), ins)
    /\ rt' = Disturbed(rt)
    /\ UNCHANGED <<proc, file, config, boot, nReloads>>

\* client.start() awaited by construct_client returns or raises; after a
\* return the client is stored under its name
StartReturn(r) ==
    /\ proc = "serving"
    /\ Yielded
    /\ rl[r].pc = "await_start"
    /\ \E out \in StartOutcomes :
         LET ins == [inst EXCEPT ![rl[r].cur] = Started(@, out)]
             n   == inst[rl[r].cur].name
             rec == [rl[r] EXCEPT !.failed = IF out = "connected" THEN @ ELSE @ \cup {n}]
         IN  IF out = "raise"
             THEN ReloadEnd(rl, r, rec, clients, ins, "False", "start")
             ELSE BuildLoop(rl, r, [rec EXCEPT !.idx = @ + 1], SetItem(clients, n, rl[r].cur), ins)
    /\ rt' = Disturbed(rt)
    /\ UNCHANGED <<proc, file, config, boot, nReloads>>

\* update_mcp_servers answers with reload_success
UpdateReturn(r) ==
    /\ proc = "serving"
    /\ rl[r].pc = "done"
    /\ rl' = [rl EXCEPT ![r] = ReloadIdle]
    /\ UNCHANGED <<proc, file, config, clients, inst, boot, rt, nReloads>>

----------------------------------------------------------------------------
(* get_client_from_tool / get_client_from_prompt, and call_tool around the *)
(* former.  seen records, per entry of the snapshot, what the loop found.  *)

\* the loop run from the wrong end: the last entry whose client has a session
NextWithSessionLast(snap, i, ins) ==
    LET S == {j \in i..Len(snap) : ins[snap[j].id].session}
    IN  IF S = {} THEN Len(snap) + 1 ELSE CHOOSE j \in S : \A k \in S : j >= k

\* the loop without "if not client.session: continue"
NextIgnoringSession(snap, i, ins) == IF i <= Len(snap) THEN i ELSE Len(snap) + 1

\* the first entry from position i on whose client has a session
NextWithSession(snap, i, ins) ==
    LET S == {j \in i..Len(snap) : ins[snap[j].id].session}
    IN  IF S = {} THEN Len(snap) + 1 ELSE CHOOSE j \in S : \A k \in S : j <= k

\* the function returns client (id > 0) or falls off the loop (None, id 0);
\* call_tool turns None into a 404 and otherwise calls client.call_tool
Respond(rec, id) ==
    [rec EXCEPT !.pc = "responded",
                !.result = id,
                !.http = IF rec.via # "tool" THEN 0 ELSE IF id = 0 THEN 404 ELSE 200,
                !.called = IF rec.via = "tool" THEN id ELSE 0]

\* the for loop over the snapshot from position i on, up to the next await
Scan(rec, i) ==
    LET j    == NextWithSession(rec.snap, i, inst)
        skip == [k \in 1..(j - i) |-> "nosession"]
        rec2 == [rec EXCEPT !.seen = @ \o skip, !.idx = j]
    IN  IF j > Len(rec.snap)
        THEN Respond(rec2, 0)
        ELSE [rec2 EXCEPT !.pc = "querying"]

RouteBegin(via, cap) ==
    /\ proc = "serving"
    /\ Yielded
    /\ rt.pc = "idle"
    /\ rt' = Scan([RouteIdle EXCEPT !.via = via, !.cap = cap, !.snap = clients], 1)
    /\ UNCHANGED <<proc, file, config, clients, inst, boot, rl, nReloads>>

\* client.session.list_tools() / list_prompts() returns its catalog
QueryReturn ==
    /\ proc = "serving"
    /\ Yielded
    /\ rt.pc = "querying"
    /\ LET e == rt.snap[rt.idx] IN
       rt' = IF rt.cap \in Catalog(rt.via, e.name)
             THEN Respond([rt EXCEPT !.seen = Append(@, "hit")], e.id)
             ELSE Scan([rt EXCEPT !.seen = Append(@, "miss")], rt.idx + 1)
    /\ UNCHANGED <<proc, file, config, clients, inst, boot, rl, nReloads>>

\* the loop without "except McpError: continue": the fault reaches the caller
QueryFaultPropagates ==
    /\ proc = "serving"
    /\ Yielded
    /\ rt.pc = "querying"
    /\ rt' = [rt EXCEPT !.pc = "responded", !.seen = Append(@, "fault"),
                        !.raised = "McpError", !.http = 500]
    /\ UNCHANGED <<proc, file, config, clients, inst, boot, rl, nReloads>>

\* client.session.list_tools() / list_prompts() raises McpError
QueryFault ==
    /\ proc = "serving"
    /\ Yielded
    /\ rt.pc = "querying"
    /\ rt' = Scan([rt EXCEPT !.seen = Append(@, "fault")], rt.idx + 1)
    /\ UNCHANGED <<proc, file, config, clients, inst, boot, rl, nReloads>>

\* a get_client that takes the client out of the registry: self.clients.pop
get_client_pops(n) ==
    /\ proc = "serving"
    /\ Yielded
    /\ rt.pc = "idle"
    /\ rt' = [RouteIdle EXCEPT !.pc = "responded", !.via = "get_client", !.cap = n,
                               !.snap = clients,
                               !.result = IF Has(clients, n) THEN Lookup(clients, n) ELSE 0,
                               !.raised = IF Has(clients, n) THEN "none" ELSE "KeyError"]
    /\ clients' = Pop(clients, n)
    /\ UNCHANGED <<proc, file, config, inst, boot, rl, nReloads>>

\* get_client(server_name): self.clients[server_name], which raises KeyError
\* for a name that is not a key
get_client(n) ==
    /\ proc = "serving"
    /\ Yielded
    /\ rt.pc = "idle"
    /\ rt' = [RouteIdle EXCEPT !.pc = "responded", !.via = "get_client", !.cap = n,
                               !.snap = clients,
                               !.result = IF Has(clients, n) THEN Lookup(clients, n) ELSE 0,
                               !.raised = IF Has(clients, n) THEN "none" ELSE "KeyError"]
    /\ UNCHANGED <<proc, file, config, clients, inst, boot, rl, nReloads>>

\* GET /tools: the loop over get_clients() up to the first await of
\* client.list_tools()
get_tools ==
    /\ proc = "serving"
    /\ Yielded
    /\ rt.pc = "idle"
    /\ rt' = IF clients = <<>>
             THEN [RouteIdle EXCEPT !.pc = "responded", !.via = "get_tools", !.http = 200]
             ELSE [RouteIdle EXCEPT !.pc = "listing", !.via = "get_tools", !.snap = clients]
    /\ UNCHANGED <<proc, file, config, clients, inst, boot, rl, nReloads>>

\* client.list_tools() returns: the loop goes on to the next entry of the
\* list, and get_tools answers after the last
ListToolsReturn ==
    /\ proc = "serving"
    /\ Yielded
    /\ rt.pc = "listing"
    /\ rt' = IF rt.idx = Len(rt.snap)
             THEN [rt EXCEPT !.pc = "responded", !.seen = Append(@, "listed"), !.http = 200]
             ELSE [rt EXCEPT !.seen = Append(@, "listed"), !.idx = @ + 1]
    /\ UNCHANGED <<proc, file, config, clients, inst, boot, rl, nReloads>>

\* client.list_tools() raises: get_tools has no handler, the request fails
ListToolsFault ==
    /\ proc = "serving"
    /\ Yielded
    /\ rt.pc = "listing"
    /\ rt' = [rt EXCEPT !.pc = "responded", !.seen = Append(@, "fault"),
                        !.raised = "Exception", !.http = 500]
    /\ UNCHANGED <<proc, file, config, clients, inst, boot, rl, nReloads>>

\* the request is answered
RouteReturn ==
    /\ proc = "serving"
    /\ rt.pc = "responded"
    /\ rt' = RouteIdle
    /\ UNCHANGED <<proc, file, config, clients, inst, boot, rl, nReloads>>

----------------------------------------------------------------------------

Next ==
    \/ initialize
    \/ InitStartReturn
    \/ \E r \in Reloaders, req \in Requests : update_mcp_servers(r, req)
    \/ \E r \in Reloaders : StopRemovedReturn(r)
    \/ \E r \in Reloaders : StopAllReturn(r)
    \/ \E r \in Reloaders : StartReturn(r)
    \/ \E r \in Reloaders : UpdateReturn(r)
    \/ \E n \in Names : get_client(n)
    \/ \E via \in {"tool", "prompt"} : \E cap \in Capabilities[via] : RouteBegin(via, cap)
    \/ QueryReturn
    \/ QueryFault
    \/ get_tools
    \/ ListToolsReturn
    \/ ListToolsFault
    \/ RouteReturn

Spec == Init /\ [][Next]_vars

\* The same program when the administrator sends one update at a time: an
\* update request arrives only when no other is being served, and not while
\* a read request that an earlier reload has overlapped is still waiting for
\* its backend (a read lasts through one reload at most).
NextSerial ==
    \/ initialize
    \/ InitStartReturn
    \/ \E r \in Reloaders, req \in Requests :
         /\ \A q \in Reloaders : rl[q].pc = "idle"
         /\ rt.stable
         /\ update_mcp_servers(r, req)
    \/ \E r \in Reloaders : StopRemovedReturn(r)
    \/ \E r \in Reloaders : StopAllReturn(r)
    \/ \E r \in Reloaders : StartReturn(r)
    \/ \E r \in Reloaders : UpdateReturn(r)
    \/ \E n \in Names : get_client(n)
    \/ \E via \in {"tool", "prompt"} : \E cap \in Capabilities[via] : RouteBegin(via, cap)
    \/ QueryReturn
    \/ QueryFault
    \/ get_tools
    \/ ListToolsReturn
    \/ ListToolsFault
    \/ RouteReturn

SpecSerial == Init /\ [][NextSerial]_vars

----------------------------------------------------------------------------
(* Claims *)

\* the read requests that go through get_client_from_tool / _from_prompt
Routed == rt.via \in {"tool", "prompt"}

\* C1 (reload convergence): when a reload that no other reload overlaps
\* returns True after loading configuration C2, the registry holds exactly
\* one entry for every name of C2 and no entry for any other name; an entry
\* whose start() failed is among them.
C1_ReloadConvergence ==
    \A r \in Reloaders :
        (rl[r].pc = "done" /\ rl[r].result = "True" /\ ~rl[r].overlapped) =>
            /\ KeySet(clients) = KeySet(rl[r].cfg)
            /\ Len(clients) = Cardinality(KeySet(rl[r].cfg))
            /\ rl[r].failed \subseteq KeySet(clients)
            /\ \A i \in 1..Len(clients) : inst[clients[i].id].name = clients[i].name

\* C1: from registry {a, b} a reload with {b, c} has returned True, and the
\* start() of one of the new clients had failed
C1_Witness ==
    \E r \in Reloaders :
        /\ rl[r].pc = "done" /\ rl[r].result = "True"
        /\ KeySet(rl[r].pre) = {"a", "b"}
        /\ KeySet(rl[r].cfg) = {"b", "c"}
        /\ KeySet(clients) = {"b", "c"}
        /\ rl[r].failed # {}

\* C2 (reload with an invalid configuration is recoverable): when the
\* configuration loaded by a reload fails validation, the process keeps
\* running, the reload returns False, the registry holds the same client
\* instances as before, none of them has been stopped, and the previous
\* configuration stays the active one.
C2_InvalidReloadRecoverable ==
    \A r \in Reloaders :
        rl[r].err = "ValidationError" =>
            /\ proc = "serving"
            /\ rl[r].pc = "done"
            /\ rl[r].result = "False"
            /\ clients = rl[r].pre
            /\ config = rl[r].prevConfig
            /\ \A i \in 1..Len(clients) : inst[clients[i].id].stops = 0

\* the names of r's configuration that have a client built and started by r
\* in the registry
Rebuilt(r) ==
    {n \in KeySet(rl[r].cfg) :
        /\ Has(clients, n)
        /\ inst[Lookup(clients, n)].by = r
        /\ inst[Lookup(clients, n)].starts = 1
        /\ Lookup(clients, n) \notin {rl[r].pre[i].id : i \in 1..Len(rl[r].pre)}}

\* C3 (start-failure isolation during reload): when start() of one client
\* fails while the reload rebuilds the clients, and nothing else goes wrong,
\* the reload still builds and starts a client for every other name of the
\* new configuration and returns True.
C3_StartFailureIsolatedInReload ==
    \A r \in Reloaders :
        (rl[r].pc = "done" /\ rl[r].failed # {} /\ rl[r].err \in {"none", "start"}) =>
            /\ rl[r].result = "True"
            /\ KeySet(rl[r].cfg) \ rl[r].failed \subseteq Rebuilt(r)

\* C4 (start-failure isolation during initialize): when start() of one
\* backend fails, the failure does not reach the caller of initialize() and
\* every other backend of the configuration is built, started and stored.
C4_StartFailureIsolatedInInitialize ==
    (boot.pc \in {"finished", "raised"} /\ boot.failed # {}) =>
        /\ boot.pc = "finished"
        /\ proc # "crashed"
        /\ KeySet(config) \ boot.failed \subseteq KeySet(clients)

\* C5 (reload serialization): at most one reload is between its first and
\* its last step at any time, and no client instance has stop() called on
\* it twice.
C5_ReloadsSerialized ==
    /\ Cardinality({r \in Reloaders : Active(r)}) <= 1
    /\ \A i \in 1..Len(inst) : inst[i].stops <= 1

\* a complete mapping after reload r: the names of r's configuration, each
\* with a client that r built
PostMapping(r, view) ==
    /\ KeySet(view) = KeySet(rl[r].cfg)
    /\ \A i \in 1..Len(view) : inst[view[i].id].by = r
    /\ \A i \in 1..Len(view) : \A j \in 1..Len(rl[r].pre) : view[i].id # rl[r].pre[j].id

\* C6 (snapshot consistency for readers): a get_clients() or get_client(name)
\* made while one reload is executing sees the complete pre-reload mapping
\* or the complete post-reload mapping.
C6_ReadersSeeWholeMapping ==
    [][ \A r \in Reloaders :
          (Active(r) /\ Cardinality({q \in Reloaders : Active(q)}) = 1
             /\ rt.pc = "idle" /\ rt'.pc # "idle") =>
                \/ rt'.snap = rl[r].pre
                \/ PostMapping(r, rt'.snap) ]_vars

\* the entries of the snapshot whose client has a session, whose backend
\* exposes the requested name and whose catalog query did not fail
Eligible ==
    {i \in 1..Len(rt.snap) :
        /\ inst[rt.snap[i].id].session
        /\ rt.cap \in Catalog(rt.via, rt.snap[i].name)
        /\ ~(i <= Len(rt.seen) /\ rt.seen[i] = "fault")}

Least(S) == CHOOSE i \in S : \A k \in S : i <= k

\* C7 (routing determinism, first match wins): get_client_from_tool and
\* get_client_from_prompt return the earliest client, in the iteration order
\* of the registry, that has a session and whose catalog (the answer to its
\* catalog query) holds the requested name; with two such backends the
\* earlier one is returned.  While nothing changes the registry during the
\* look-up this is the earliest eligible entry of the registry itself.
C7_FirstMatchWins ==
    (rt.pc = "responded" /\ Routed) =>
        LET H == {i \in 1..Len(rt.seen) : rt.seen[i] = "hit"} IN
        /\ Len(rt.seen) <= Len(rt.snap)
        /\ \A i \in 1..Len(rt.seen) :
              /\ rt.seen[i] = "hit"  => rt.cap \in Catalog(rt.via, rt.snap[i].name)
              /\ rt.seen[i] = "miss" => rt.cap \notin Catalog(rt.via, rt.snap[i].name)
        /\ IF H = {} THEN rt.result = 0 /\ Len(rt.seen) = Len(rt.snap)
                     ELSE rt.result = rt.snap[Least(H)].id
        /\ rt.stable =>
              /\ rt.snap = clients
              /\ IF Eligible = {} THEN rt.result = 0
                                  ELSE rt.result = rt.snap[Least(Eligible)].id

\* C7: two connected backends both expose the requested name and the
\* look-up has returned the earlier one
C7_Witness ==
    /\ rt.pc = "responded" /\ Routed /\ rt.stable
    /\ Cardinality(Eligible) >= 2
    /\ rt.result = rt.snap[Least(Eligible)].id
    /\ \E i \in Eligible : rt.snap[i].id # rt.result

\* C8 (routing exclusion): a client whose session is absent when the loop
\* reaches it is skipped: its catalog is not queried and it is not returned,
\* whatever its backend would expose, and the look-up raises nothing.
C8_NoSessionNeverRouted ==
    [][ (rt' # rt /\ rt'.via \in {"tool", "prompt"}) =>
          /\ (rt'.pc = "querying" /\ (rt.pc = "idle" \/ Len(rt'.seen) > Len(rt.seen)))
                => inst[rt'.snap[rt'.idx].id].session
          /\ \A k \in 1..Len(rt'.seen) :
                (k > Len(rt.seen) \/ rt.pc = "idle") =>
                    (rt'.seen[k] = "nosession" <=> ~inst[rt'.snap[k].id].session
                                                    /\ ~(rt.pc = "querying" /\ rt.idx = k))
          /\ (rt'.pc = "responded" /\ rt.pc # "responded" /\ rt'.result # 0)
                => /\ rt.pc = "querying"
                   /\ rt'.result = rt.snap[rt.idx].id
                   /\ (rt'.stable => inst[rt'.result].session)
          /\ rt'.raised = "none" ]_vars

\* C8: an earlier client without a session, whose backend exposes the
\* requested name, was skipped and a later client returned
C8_Witness ==
    /\ rt.pc = "responded" /\ Routed /\ rt.result # 0
    /\ \E i \in 1..Len(rt.seen) :
          /\ rt.seen[i] = "nosession"
          /\ rt.cap \in Catalog(rt.via, rt.snap[i].name)
          /\ rt.snap[i].id # rt.result

\* C9 (routing fault isolation): a catalog query that fails is swallowed for
\* that backend and the loop goes on; the look-up returns the client of
\* another backend that exposes the name, and None without raising when
\* there is none; call_tool turns None into a 404 and calls no backend.
C9_CatalogFaultIsolated ==
    (rt.pc = "responded" /\ Routed) =>
        /\ rt.raised = "none"
        /\ \A i \in 1..Len(rt.seen) : rt.seen[i] = "fault" => rt.result # rt.snap[i].id
        /\ rt.result = 0 => Len(rt.seen) = Len(rt.snap)
        /\ rt.result # 0 => /\ Len(rt.seen) >= 1
                            /\ rt.seen[Len(rt.seen)] = "hit"
                            /\ rt.snap[Len(rt.seen)].id = rt.result
        /\ (rt.stable /\ Eligible # {}) => rt.result # 0
        /\ rt.via = "tool" =>
              /\ rt.result = 0 => (rt.http = 404 /\ rt.called = 0)
              /\ rt.result # 0 => (rt.http = 200 /\ rt.called = rt.result)

\* C9: the catalog query of one backend failed and the look-up returned the
\* client of a later backend
C9_Witness ==
    /\ rt.pc = "responded" /\ Routed /\ rt.result # 0
    /\ \E i \in 1..Len(rt.seen) : rt.seen[i] = "fault"

\* C10 (get_client): get_client(name) returns the registered client when the
\* name is in the registry and a "not found" result when it is not; it
\* leaves the registry as it is.
C10_GetClientNotFound ==
    (rt.pc = "responded" /\ rt.via = "get_client") =>
        /\ rt.raised = "none"
        /\ Has(rt.snap, rt.cap) => rt.result = Lookup(rt.snap, rt.cap)
        /\ ~Has(rt.snap, rt.cap) => rt.result = 0
        /\ clients = rt.snap

\* C11 (initialize builds one client per configured backend): when
\* initialize() has completed, the registry holds exactly one client per
\* entry of the configuration, keyed by the entry's name; the client's class
\* is the one of the descriptor's variant (stdio: StdioClient, SSE:
\* SseClient, docker: DockerClient), start() has been called once on it, and
\* no other client has been created.
C11_InitializeBuildsEveryEntry ==
    (boot.pc = "finished" /\ nReloads = 0) =>
        /\ Keys(clients) = Keys(config)
        /\ Len(inst) = Len(config)
        /\ \A i \in 1..Len(clients) : \A j \in 1..Len(clients) :
              clients[i].id = clients[j].id => i = j
        /\ \A i \in 1..Len(clients) :
              LET c == inst[clients[i].id] IN
              /\ c.name = config[i].name
              /\ c.by = "boot"
              /\ c.starts = 1
              /\ config[i].kind = "stdio"  => c.class = "StdioClient"
              /\ config[i].kind = "sse"    => c.class = "SseClient"
              /\ config[i].kind = "docker" => c.class = "DockerClient"

\* C11: initialize() has completed for a configuration with a docker and an
\* SSE descriptor, and the registry holds a DockerClient and an SseClient
C11_Witness ==
    /\ boot.pc = "finished" /\ nReloads = 0
    /\ Len(clients) = 2
    /\ \E i, j \in 1..Len(clients) :
          /\ config[i].kind = "docker" /\ inst[clients[i].id].class = "DockerClient"
          /\ config[j].kind = "sse"    /\ inst[clients[j].id].class = "SseClient"
          /\ inst[clients[i].id].state \in {"Connected", "Failed"}

\* the clients that reload r has constructed
BuiltBy(r) == {i \in 1..Len(inst) : i > rl[r].base /\ inst[i].by = r}

\* C12 (unrecognized descriptor): when construct_client meets an entry whose
\* descriptor is none of the three variants, no client is created for that
\* entry, and either no client of the configuration has been started when
\* the error surfaces or every other entry still gets a started client in
\* the registry; the entries before the malformed one are never started
\* while the entries after it are not.
C12_UnrecognizedDescriptor ==
    \A r \in Reloaders :
        (rl[r].pc = "done" /\ rl[r].err = "NotImplementedError") =>
            LET bad    == rl[r].cfg[rl[r].idx].name
                others == KeySet(rl[r].cfg) \ {bad}
            IN  /\ \A i \in BuiltBy(r) : inst[i].name # bad
                /\ \/ BuiltBy(r) = {}
                   \/ \A n \in others :
                         /\ Has(clients, n)
                         /\ Lookup(clients, n) \in BuiltBy(r)
                         /\ inst[Lookup(clients, n)].starts = 1

\* C13 (get_clients returns a stable snapshot): the sequence a reader got
\* from get_clients() is the registry's content at the time of the call, and
\* it stays as it was for as long as the reader holds it, whatever a reload
\* pops from or inserts into the registry meanwhile.
C13_SnapshotStable ==
    [][ /\ (rt.pc = "idle" /\ rt'.pc # "idle") => rt'.snap \in {clients, <<>>}
        /\ (rt.pc # "idle" /\ rt'.pc # "idle") => rt'.snap = rt.snap ]_vars

\* C13: a reload has changed the registry while a reader is part-way
\* through the sequence it got from get_clients()
C13_Witness ==
    /\ rt.pc \in {"querying", "listing"}
    /\ rt.snap # <<>>
    /\ KeySet(clients) # KeySet(rt.snap)
    /\ \E i \in 1..Len(rt.snap) : \A j \in 1..Len(clients) : clients[j].id # rt.snap[i].id

\* C14 (only initialize and reload change the registry): every step of
\* get_client, get_clients, get_client_from_tool, get_client_from_prompt,
\* get_tools and call_tool leaves the registry as it is: the same names and
\* the same client instances, whether the step succeeds, finds nothing or
\* meets a backend fault.
C14_ReadersLeaveRegistry ==
    [][ (rt' # rt /\ rl' = rl /\ boot' = boot) => clients' = clients ]_vars

\* C14: with backends registered, a read has ended on a backend fault, or a
\* look-up on nothing found
C14_Witness ==
    /\ rt.pc = "responded"
    /\ clients # <<>>
    /\ \/ rt.via = "get_tools" /\ rt.http = 500
       \/ rt.via = "get_client" /\ rt.raised = "KeyError"
       \/ rt.via = "tool" /\ rt.http = 404 /\ \E i \in 1..Len(rt.seen) : rt.seen[i] = "fault"

\* the clients the registry held when reload r began
PreIds(r) == {rl[r].pre[i].id : i \in 1..Len(rl[r].pre)}

\* the clients the registry holds now
Registered == {clients[i].id : i \in 1..Len(clients)}

\* C15 (step order within one reload): from the moment a reload has
\* inserted its first new client, every client the registry held when the
\* reload began has had stop() called and is out of the registry; the
\* registry never holds a pre-reload client together with a client the
\* reload built.
C15_StopsBeforeStarts ==
    \A r \in Reloaders :
        (rl[r].pc # "idle" /\ Registered \cap BuiltBy(r) # {}) =>
            /\ Registered \cap PreIds(r) = {}
            /\ \A i \in PreIds(r) : inst[i].stops >= 1

\* C15: a reload that began with two clients has inserted its first new
\* client and is waiting for the start() of the next
C15_Witness ==
    \E r \in Reloaders :
        /\ rl[r].pc = "await_start"
        /\ Len(rl[r].pre) = 2
        /\ Registered \cap BuiltBy(r) # {}
        /\ Registered \cap PreIds(r) = {}

\* C16 (stop failures are best-effort): when stop() of a client raises
\* during a reload, the reload goes on: the client whose stop() raised is
\* out of the registry, so is every other pre-reload client, and every name
\* of the new configuration gets its new client.
C16_StopFailureContained ==
    \A r \in Reloaders :
        (rl[r].pc = "done" /\ rl[r].err = "stop") =>
            /\ rl[r].cur \notin Registered
            /\ Registered \cap PreIds(r) = {}
            /\ KeySet(rl[r].cfg) \subseteq Rebuilt(r)

\* C17 (stop-and-rebuild-all): after a reload that returns True, every
\* client in the registry is one that reload constructed, of the class of
\* its name's descriptor in the new configuration, also for a name that was
\* there before; every client the registry held when the reload began has
\* had stop() called exactly once and is out of the registry.
C17_RebuildAll ==
    \A r \in Reloaders :
        (rl[r].pc = "done" /\ rl[r].result = "True") =>
            /\ Registered \subseteq BuiltBy(r)
            /\ \A i \in 1..Len(clients) : \E j \in 1..Len(rl[r].cfg) :
                  /\ rl[r].cfg[j].name = clients[i].name
                  /\ inst[clients[i].id].class = ClientClass(rl[r].cfg[j].kind)
            /\ Registered \cap PreIds(r) = {}
            /\ \A i \in PreIds(r) : inst[i].stops = 1

\* C18 (no stale client serves a request): the client that
\* get_client_from_tool / get_client_from_prompt returns, and that call_tool
\* then calls, is in the registry and has not had stop() called on it at
\* the moment it is returned.
C18_NoStaleClientServes ==
    (rt.pc = "responded" /\ Routed /\ rt.result # 0) =>
        /\ rt.result \in Registered
        /\ inst[rt.result].stops = 0

\* C19 (no orphaned live clients): whenever no initialize() and no reload is
\* in progress, every client on which start() has been called and stop()
\* has not (so that stop() cannot have completed) is held in the registry
\* under its name.
C19_NoOrphanedClients ==
    (proc = "serving" /\ \A r \in Reloaders : rl[r].pc = "idle") =>
        \A i \in 1..Len(inst) :
            (inst[i].starts >= 1 /\ inst[i].stops = 0) =>
                /\ Has(clients, inst[i].name)
                /\ Lookup(clients, inst[i].name) = i

\* C20 (convergence under overlapping reloads): a reload that overlapped
\* with another does not end on a KeyError raised because of the other's
\* pops; and when it returns True, has loaded the configuration that is the
\* last one loaded and the other reload has returned too, the registry's
\* names are those of that configuration and every client in it is one
\* built from that configuration's descriptor.
C20_OverlappingReloadsConverge ==
    \A r \in Reloaders :
        (rl[r].pc = "done" /\ rl[r].overlapped) =>
            /\ rl[r].err # "KeyError"
            /\ (rl[r].result = "True" /\ rl[r].cfg = config /\ Overlapping(r) = {}) =>
                  /\ KeySet(clients) = KeySet(config)
                  /\ \A i \in 1..Len(clients) : \E j \in 1..Len(config) :
                        /\ config[j].name = clients[i].name
                        /\ inst[clients[i].id].class = ClientClass(config[j].kind)
                        /\ inst[clients[i].id].stops = 0

\* the descriptor kind of name n in the server list f
KindOf(f, n) == f[CHOOSE i \in 1..Len(f) : f[i].name = n].kind

\* the file holds what r's request asked for, applied to the file as it was:
\* an added id that has a configuration is there with that configuration, a
\* removed id that was not added again is not there, and every other id is
\* as it was
Persisted(r) ==
    \A n \in Names :
        LET q     == rl[r].req
            added == {i \in 1..Len(q.add) : q.add[i].name = n /\ q.add[i].kind # "missing"}
        IN  IF added # {}
            THEN /\ Has(file, n)
                 /\ \E i \in added : KindOf(file, n) = q.add[i].kind
            ELSE IF n \in q.remove
            THEN ~Has(file, n)
            ELSE /\ Has(file, n) <=> Has(rl[r].prevConfig, n)
                 /\ Has(file, n) => KindOf(file, n) = KindOf(rl[r].prevConfig, n)

\* C21 (update_mcp_servers persists before it reloads and tolerates reload
\* failure): from the first step of the reload on, the file holds the
\* request's removals and additions, and it is that file the reload loads;
\* when the reload has returned or raised, the request is answered with
\* status 200 and success = true, the file still holds the updated content,
\* and reload_success is true exactly when the reload returned True.
C21_PersistsAndToleratesReloadFailure ==
    \A r \in Reloaders :
        /\ rl[r].pc # "idle" => Persisted(r)
        /\ rl[r].pc \notin {"idle", "exit"} => rl[r].cfg = file
        /\ rl[r].pc \in {"done", "exit"} =>
              /\ proc = "serving"
              /\ rl[r].pc = "done"
              /\ rl[r].resp.http = 200
              /\ rl[r].resp.success
              /\ rl[r].resp.reload_success <=> rl[r].result = "True"

====
